---- MODULE Spec2Model ----
(***************************************************************************)
(* A model of CopilotRuntime (packages/runtime/src/lib/runtime/            *)
(* copilot-runtime.ts): the action deduplicator                            *)
(* flattenToolCallsNoDuplicates and one turn of processRuntimeRequest /    *)
(* processAgentRequest, with the before/after middleware hooks, the        *)
(* caller-owned output-messages promise and the turn's event sources;       *)
(* agent discovery over the configured endpoints and loadAgentState; and    *)
(* the forwarding of a remote agent's stream into the turn's event source.  *)
(***************************************************************************)
EXTENDS Integers, Sequences, FiniteSets, TLC

\* ------------------------------------------------------------------ bounds
MaxServerActions == 2   \* longest resolved server-side action list
MaxClientActions == 1   \* longest client-declared action list
MaxEvents == 2          \* most events a producer pushes in one turn
MaxTools == 2           \* longest list A (and B) handed to the deduplicator
MaxEndpoints == 2       \* most remote endpoint definitions configured
MaxAgentsPerEndpoint == 1  \* most agents one endpoint exposes
MaxSourceEvents == 3    \* most events the remote agent's stream produces

\* ------------------------------------------------------------ value space
Undefined == "undefined"
Names == {"A", "B"}
ThreadIds == {"t1", "t2"}
OptThreadIds == ThreadIds \cup {Undefined}

\* The errors of @copilotkit/shared that extend CopilotKitError, and a plain Error.
CopilotKitErrors ==
  { "CopilotKitMisuseError", "CopilotKitApiDiscoveryError", "ResolvedCopilotKitError",
    "CopilotKitLowLevelError", "CopilotKitAgentDiscoveryError" }
PlainError == "Error"
NoError == "none"

\* error instanceof CopilotKitError
IsCopilotKitError(error) == error \in CopilotKitErrors

RECURSIVE SeqsUpTo(_, _)
SeqsUpTo(S, n) ==
  IF n = 0 THEN { <<>> }
  ELSE LET shorter == SeqsUpTo(S, n - 1)
       IN shorter \cup { Append(s, x) : s \in { t \in shorter : Len(t) = n - 1 }, x \in S }

\* ActionInput: name plus the payload (description, jsonSchema) that travels with it.
ToolDescriptors == [name : Names, description : {"d1", "d2"}]

\* Action<any>: a server-side action; a remote agent action carries a remoteAgentHandler.
ServerSideActionValues ==
  { [name |-> n, description |-> "action", remoteAgentHandler |-> FALSE] : n \in Names }
  \cup { [name |-> n, description |-> "agent", remoteAgentHandler |-> TRUE] : n \in Names }

\* ActionInput as declared by the client, with its availability.
ClientActionValues ==
  [name : Names, description : {"client"}, available : {"enabled", "remote"}]

isRemoteAgentAction(action) == action.remoteAgentHandler

NamesOf(tools) == { tools[i].name : i \in 1..Len(tools) }

\* ------------------------------------------------- flattenToolCallsNoDuplicates
RECURSIVE flattenLoop(_, _, _, _)
flattenLoop(toolsByPriority, i, allTools, allToolNames) ==
  IF i > Len(toolsByPriority) THEN allTools
  ELSE LET tool == toolsByPriority[i]
       IN IF tool.name \notin allToolNames
          THEN flattenLoop(toolsByPriority, i + 1, Append(allTools, tool),
                           allToolNames \cup {tool.name})
          ELSE flattenLoop(toolsByPriority, i + 1, allTools, allToolNames)

\* A deduplicator in which a later entry replaces the kept one (last occurrence wins).
RECURSIVE flattenLastWins(_)
flattenLastWins(toolsByPriority) ==
  IF toolsByPriority = <<>> THEN <<>>
  ELSE LET n == Len(toolsByPriority)
           front == flattenLastWins(SubSeq(toolsByPriority, 1, n - 1))
           tool == toolsByPriority[n]
       IN IF \E i \in 1..Len(front) : front[i].name = tool.name
          THEN [i \in 1..Len(front) |->
                  IF front[i].name = tool.name THEN tool ELSE front[i]]
          ELSE Append(front, tool)

flattenToolCallsNoDuplicates(toolsByPriority) ==
  flattenLoop(toolsByPriority, 1, <<>>, {})

\* serverSideActions.map(action => ({name, description, jsonSchema}))
ToActionInput(action) ==
  [name |-> action.name, description |-> action.description, available |-> Undefined]

\* serverSideActions.map(...) over the whole list
ToActionInputs(actions) == [i \in 1..Len(actions) |-> ToActionInput(actions[i])]

\* clientSideActionsInput.filter(action => action.available !== remote)
NotRemoteOnly(action) == action.available # "remote"

\* An assembly that puts the client-declared actions ahead of the server-side ones.
DirectActionInputsClientFirst(serverActions, clientList) ==
  flattenToolCallsNoDuplicates(
    SelectSeq(clientList, NotRemoteOnly) \o ToActionInputs(serverActions))

\* The action set handed to the service adapter (direct dispatch).
DirectActionInputs(serverActions, clientList) ==
  flattenToolCallsNoDuplicates(
    ToActionInputs(serverActions) \o SelectSeq(clientList, NotRemoteOnly))

\* actionInputs.filter(action => !serverSideActions.find(s => s.name == action.name))
WithoutServerSideActions(inputs, serverActions) ==
  LET NotServerSide(action) == action.name \notin NamesOf(serverActions)
  IN SelectSeq(inputs, NotServerSide)

\* A lookup of the current agent that never misses.
HasCurrentAgentUnchecked(serverActions, agentName) == TRUE

\* serverSideActions.find(action => action.name === agentName && isRemoteAgentAction(action))
HasCurrentAgent(serverActions, agentName) ==
  \E i \in 1..Len(serverActions) :
    serverActions[i].name = agentName /\ isRemoteAgentAction(serverActions[i])

\* A filter that keeps every server-side action, the current agent's own included.
AvailableActionsKeepingSelf(serverActions, agentName) ==
  ToActionInputs(serverActions)

\* Regular actions, and the other agents' actions (no self-call).
AvailableActionsForCurrentAgent(serverActions, agentName) ==
  LET Keep(action) ==
        \/ ~isRemoteAgentAction(action)
        \/ (isRemoteAgentAction(action) /\ action.name # agentName)
  IN ToActionInputs(SelectSeq(serverActions, Keep))

\* The action set handed to the remote agent (agent delegation).
AllAvailableActions(serverActions, agentName, clientList) ==
  flattenToolCallsNoDuplicates(
    AvailableActionsForCurrentAgent(serverActions, agentName) \o clientList)

\* a ?? b
Coalesce(a, b) == IF a # Undefined THEN a ELSE b

\* The thread a remote agent runs the turn in: the one it is handed, or one of its own.
AgentReportedThreadIds(threadId) ==
  IF threadId = Undefined THEN ThreadIds ELSE {threadId}

\* RuntimeEventSource.sendErrorMessageToChat: one more producer on the event source.
sendErrorMessageToChat(producers) == Append(producers, "errorChat")

VARIABLES
  listA, listB,        \* the two source lists handed to the deduplicator
  deduped,             \* its result for listA \o listB
  dedupeDone,          \* whether the deduplicator has been applied
  reqThreadId,         \* request.threadId
  agentSession,        \* request.agentSession: [present, agentName, threadId]
  serviceAdapter,      \* request.serviceAdapter: "EmptyAdapter" or "LLMAdapter"
  clientActions,       \* request.actions
  delegateAgentProcessingToServiceAdapter,
  onBeforeRequest,     \* whether a before-hook is configured
  onAfterRequest,      \* whether an after-hook is configured
  pc,                  \* where processRuntimeRequest / processAgentRequest stands
  getActionsCalls,     \* calls of getServerSideActions
  actionsResolved,     \* whether getServerSideActions has returned its list
  serverSideActions,   \* the resolved server-side actions
  actionInputs,        \* the action set handed to the backend
  beforeHook,          \* "notCalled", "running", "done", "threw"
  adapterCalls,        \* calls of serviceAdapter.process
  handlerCalls,        \* calls of currentAgent.remoteAgentHandler
  backendThreadId,     \* the thread id the backend reported
  raised,              \* the error processRuntimeRequest's catch block caught
  thrown,              \* the error processRuntimeRequest rejected with
  response,            \* the CopilotRuntimeResponse
  outerProducers,      \* producers attached to processRuntimeRequest's event source
  agentProducers,      \* producers attached to processAgentRequest's event source
  events,              \* events pushed into the turn's event source
  streamState,         \* "idle", "open", "completed", "errored"
  outputMessagesPromise, \* "pending", "resolved", "rejected"
  afterThen,           \* the .then/.catch chain: "none", "registered", "ran", "skipped"
  afterHook,           \* "notCalled", "ok", "threw", "rejected"
  unhandledRejection   \* a rejected promise nothing handles

dedupeVars == <<listA, listB, deduped, dedupeDone>>

VARIABLES
  remoteEndpointDefinitions, \* this.remoteEndpointDefinitions, in configuration order
  operation,           \* "discoverAgentsFromEndpoints" or "loadAgentState"
  loadThreadId,        \* loadAgentState's threadId
  loadAgentName,       \* loadAgentState's agentName
  epc,                 \* where the operation stands
  resolvedCount,       \* how many of the reduce's promises have resolved
  inFlight,            \* the endpoints (indices) whose query is pending
  queried,             \* the endpoints queried, in the order the queries were issued
  answers,             \* what each queried endpoint answered, in the order of the answers
  agents,              \* the accumulator of the reduce
  lastFetch,           \* the last fetch of a CopilotKit endpoint and its outcome
  opError,             \* the error the operation rejected with
  agentWithEndpoint,   \* the agent loadAgentState found
  getStateOutcome,     \* client.threads.getState: "none", "pending", "threw", "returned"
  threadState,         \* loadAgentState's local variable state
  loadResult,          \* the LoadAgentStateResponse
  sourceEvents,        \* the events the remote agent's stream has produced
  sourceEnd,           \* how that stream ended: "open", "error", "complete"
  subscribed,          \* whether from(stream).subscribe(...) has been called
  delivered,           \* how many of the source's events the observer was handed
  observerClosed,      \* whether the observer was handed the source's end
  pushed,              \* the events pushed into eventStream$
  subjectState         \* eventStream$: "open", "errored", "completed"

endpointVars ==
  <<remoteEndpointDefinitions, operation, loadThreadId, loadAgentName, epc, resolvedCount,
    inFlight, queried, answers, agents, lastFetch, opError, agentWithEndpoint,
    getStateOutcome, threadState, loadResult>>

forwardVars ==
  <<sourceEvents, sourceEnd, subscribed, delivered, observerClosed, pushed, subjectState>>

\* What one turn of processRuntimeRequest leaves alone besides its own variables.
otherVars == <<dedupeVars, endpointVars, forwardVars>>

requestVars ==
  <<reqThreadId, agentSession, serviceAdapter, clientActions,
    delegateAgentProcessingToServiceAdapter, onBeforeRequest, onAfterRequest>>

processorVars ==
  <<pc, getActionsCalls, actionsResolved, serverSideActions, actionInputs, beforeHook, adapterCalls,
    handlerCalls, backendThreadId, raised, thrown, response>>

streamVars == <<outerProducers, agentProducers, events, streamState>>

afterVars == <<outputMessagesPromise, afterThen, afterHook, unhandledRejection>>

turnVars == <<requestVars, processorVars, streamVars, afterVars>>

vars == <<dedupeVars, turnVars, endpointVars, forwardVars>>

NoSession == [present |-> FALSE, agentName |-> Undefined, threadId |-> Undefined]

AgentSessions ==
  {NoSession} \cup [present : {TRUE}, agentName : {"A"}, threadId : OptThreadIds]

NoResponse ==
  [threadId |-> Undefined, eventSource |-> "none", serverSideActions |-> <<>>,
   actionInputsWithoutAgents |-> <<>>]

\* A mode selection that looks at the agent session only.
AgentModeIgnoringDelegate == agentSession.present

\* if (agentSession && !this.delegateAgentProcessingToServiceAdapter)
AgentMode == agentSession.present /\ ~delegateAgentProcessingToServiceAdapter

\* const threadId = threadIdFromRequest ?? agentSession.threadId
AgentThreadId == Coalesce(reqThreadId, agentSession.threadId)

\* ------------------------------------------------- endpoints and their agents
\* EndpointType
CopilotKitEndpointType == "copilotKit"
LangGraphPlatformEndpointType == "langgraph-platform"

DeploymentUrls == {"http://d1"}

\* EndpointDefinition: a CopilotKitEndpoint has a url, a LangGraphPlatformEndpoint a
\* deploymentUrl and a list of agents (agents: the key is there); the type tag is
\* there when a factory function set it. A key that is absent reads as Undefined. The
\* untagged definitions: one with a url and a deploymentUrl but no agents, one with
\* all three keys, and one of the platform's shape.
EndpointDefinitions ==
  { [type |-> CopilotKitEndpointType, url |-> "http://u1", deploymentUrl |-> Undefined,
     agents |-> FALSE],
    [type |-> Undefined, url |-> "http://u2", deploymentUrl |-> "http://d1",
     agents |-> FALSE],
    [type |-> Undefined, url |-> "http://u3", deploymentUrl |-> "http://d1",
     agents |-> TRUE] }
  \cup [type : {LangGraphPlatformEndpointType, Undefined}, url : {Undefined},
        deploymentUrl : DeploymentUrls, agents : {TRUE}]

\* resolveEndpointType(endpoint)
resolveEndpointType(endpoint) ==
  IF endpoint.type = Undefined
  THEN IF endpoint.deploymentUrl # Undefined /\ endpoint.agents
       THEN LangGraphPlatformEndpointType
       ELSE CopilotKitEndpointType
  ELSE endpoint.type

\* this.remoteEndpointDefinitions.map((endpoint) =>
\*   ({ ...endpoint, type: resolveEndpointType(endpoint) }))
ResolvedEndpointDefinitions(definitions) ==
  [k \in DOMAIN definitions |->
     [definitions[k] EXCEPT !.type = resolveEndpointType(definitions[k])]]

AgentNames == {"A", "B"}

\* An error value: its class, and the url, status and cause it was constructed with.
Err(kind, url, status, cause) ==
  [kind |-> kind, url |-> url, status |-> status, cause |-> cause]

NoErr == Err(NoError, Undefined, 0, NoError)

\* What fetch, or the header hook evaluated for it, throws: a network failure, or an
\* error that is a CopilotKitError already.
FetchThrowables ==
  { Err("TypeError", Undefined, 0, NoError),
    Err("CopilotKitMisuseError", Undefined, 0, NoError) }

\* What the LangGraph SDK client throws.
SdkThrowables ==
  { Err(PlainError, Undefined, 0, NoError),
    Err("CopilotKitLowLevelError", Undefined, 0, NoError) }

Statuses == {200, 201, 400, 404, 500}

\* response.ok
IsOk(status) == status >= 200 /\ status <= 299

\* The outcome of a fetch: it threw, or a response with a status and a body that
\* response.json() parses or not.
FetchOutcomes(url) ==
  IF url = Undefined
  THEN { [kind |-> "threw", status |-> 0, error |-> Err("TypeError", Undefined, 0, NoError),
          validJson |-> FALSE] }
  ELSE { [kind |-> "threw", status |-> 0, error |-> e, validJson |-> FALSE] :
           e \in FetchThrowables }
       \cup { [kind |-> "response", status |-> st, error |-> NoErr, validJson |-> v] :
                st \in Statuses, v \in BOOLEAN }

NoFetch == [fetchUrl |-> Undefined, kind |-> "none", status |-> 0, error |-> NoErr,
            validJson |-> FALSE]

NoAgent == [name |-> Undefined, endpoint |-> 0]

\* A thread state: an object, as the list of its keys and their (array) values.
StateKeys == {"messages", "k"}
LangChainMessages == {"m1"}
StateEntries ==
  [key : {"messages"}, value : {<<>>} \cup { <<message>> : message \in LangChainMessages }]
  \cup [key : {"k"}, value : {<<"v">>}]
ThreadStates ==
  { st \in SeqsUpTo(StateEntries, Cardinality(StateKeys)) :
      \A i, j \in 1..Len(st) : i # j => st[i].key # st[j].key }

NoLoadResult ==
  [threadId |-> Undefined, threadExists |-> FALSE, state |-> <<>>, messages |-> <<>>]

EndpointsIdle ==
  /\ remoteEndpointDefinitions = <<>>
  /\ operation = "none"
  /\ loadThreadId = ""
  /\ loadAgentName = Undefined
  /\ epc = "idle"
  /\ resolvedCount = 0
  /\ inFlight = {}
  /\ queried = <<>>
  /\ answers = <<>>
  /\ agents = <<>>
  /\ lastFetch = NoFetch
  /\ opError = NoErr
  /\ agentWithEndpoint = NoAgent
  /\ getStateOutcome = "none"
  /\ threadState = <<>>
  /\ loadResult = NoLoadResult

\* RuntimeEvent values
RuntimeEvents == {"e1", "e2"}

ForwardIdle ==
  /\ sourceEvents = <<>>
  /\ sourceEnd = "open"
  /\ subscribed = FALSE
  /\ delivered = 0
  /\ observerClosed = FALSE
  /\ pushed = <<>>
  /\ subjectState = "idle"

DedupeIdle ==
  /\ listA = <<>>
  /\ listB = <<>>
  /\ deduped = <<>>
  /\ dedupeDone = FALSE

TurnIdle ==
  /\ reqThreadId = Undefined
  /\ agentSession = NoSession
  /\ serviceAdapter = "LLMAdapter"
  /\ clientActions = <<>>
  /\ delegateAgentProcessingToServiceAdapter = FALSE
  /\ onBeforeRequest = FALSE
  /\ onAfterRequest = FALSE
  /\ pc = "idle"
  /\ getActionsCalls = 0
  /\ actionsResolved = FALSE
  /\ serverSideActions = <<>>
  /\ actionInputs = <<>>
  /\ beforeHook = "notCalled"
  /\ adapterCalls = 0
  /\ handlerCalls = 0
  /\ backendThreadId = Undefined
  /\ raised = NoError
  /\ thrown = NoError
  /\ response = NoResponse
  /\ outerProducers = <<>>
  /\ agentProducers = <<>>
  /\ events = <<>>
  /\ streamState = "idle"
  /\ outputMessagesPromise = "pending"
  /\ afterThen = "none"
  /\ afterHook = "notCalled"
  /\ unhandledRejection = FALSE

DedupeInit ==
  /\ listA \in SeqsUpTo(ToolDescriptors, MaxTools)
  /\ listB \in SeqsUpTo(ToolDescriptors, MaxTools)
  /\ deduped = <<>>
  /\ dedupeDone = FALSE
  /\ TurnIdle
  /\ EndpointsIdle
  /\ ForwardIdle

ApplyDedupe ==
  /\ ~dedupeDone
  /\ deduped' = flattenToolCallsNoDuplicates(listA \o listB)
  /\ dedupeDone' = TRUE
  /\ UNCHANGED <<listA, listB, turnVars, endpointVars, forwardVars>>

SpecDedupe == DedupeInit /\ [][ApplyDedupe]_vars

\* ------------------------------------------------------------- one turn
\* What getServerSideActions can reject with: setupRemoteActions' typed errors, or
\* whatever a configured actions function throws.
ResolutionErrors ==
  {"CopilotKitApiDiscoveryError", "ResolvedCopilotKitError", "CopilotKitLowLevelError",
   PlainError}

\* What a before-hook, user code, can throw.
HookErrors == {"CopilotKitLowLevelError", PlainError}

\* What a service adapter or a remote agent handler can reject with.
BackendErrors == {"CopilotKitLowLevelError", PlainError}

Init ==
  /\ DedupeIdle
  /\ EndpointsIdle
  /\ ForwardIdle
  /\ reqThreadId \in OptThreadIds
  /\ agentSession \in AgentSessions
  /\ serviceAdapter \in {"EmptyAdapter", "LLMAdapter"}
  /\ clientActions \in SeqsUpTo(ClientActionValues, MaxClientActions)
  /\ delegateAgentProcessingToServiceAdapter \in BOOLEAN
  /\ onBeforeRequest \in BOOLEAN
  /\ onAfterRequest \in BOOLEAN
  /\ pc = "start"
  /\ getActionsCalls = 0
  /\ actionsResolved = FALSE
  /\ serverSideActions = <<>>
  /\ actionInputs = <<>>
  /\ beforeHook = "notCalled"
  /\ adapterCalls = 0
  /\ handlerCalls = 0
  /\ backendThreadId = Undefined
  /\ raised = NoError
  /\ thrown = NoError
  /\ response = NoResponse
  /\ outerProducers = <<>>
  /\ agentProducers = <<>>
  /\ events = <<>>
  /\ streamState = "idle"
  /\ outputMessagesPromise = "pending"
  /\ afterThen = "none"
  /\ afterHook = "notCalled"
  /\ unhandledRejection = FALSE

\* A catch block that sends the chat error message whatever the error's type.
OuterCatchNotifyingAll(error, producers) ==
  /\ pc' = "failed"
  /\ raised' = error
  /\ thrown' = error
  /\ outerProducers' = sendErrorMessageToChat(producers)

\* The catch block of processRuntimeRequest: a CopilotKitError is re-thrown as it is,
\* anything else is re-thrown after sendErrorMessageToChat.
OuterCatch(error, producers) ==
  /\ pc' = "failed"
  /\ raised' = error
  /\ thrown' = error
  /\ outerProducers' =
       IF IsCopilotKitError(error) THEN producers ELSE sendErrorMessageToChat(producers)

\* The entry of processRuntimeRequest with no EmptyAdapter check.
StartTurnUnchecked ==
  /\ pc = "start"
  /\ pc' = "getServerSideActions"
  /\ getActionsCalls' = getActionsCalls + 1
  /\ UNCHANGED <<raised, thrown, outerProducers>>
  /\ UNCHANGED <<actionsResolved, serverSideActions, actionInputs, beforeHook,
                 adapterCalls, handlerCalls, backendThreadId, response>>
  /\ UNCHANGED <<agentProducers, events, streamState>>
  /\ UNCHANGED <<otherVars, requestVars, afterVars>>

\* processRuntimeRequest up to its first await: the agent branch, the EmptyAdapter
\* check, or the call of getServerSideActions.
StartTurn ==
  /\ pc = "start"
  /\ IF AgentMode \/ serviceAdapter # "EmptyAdapter"
     THEN /\ pc' = "getServerSideActions"
          /\ getActionsCalls' = getActionsCalls + 1
          /\ UNCHANGED <<raised, thrown, outerProducers>>
     ELSE /\ OuterCatch("CopilotKitMisuseError", outerProducers)
          /\ UNCHANGED getActionsCalls
  /\ UNCHANGED <<actionsResolved, serverSideActions, actionInputs, beforeHook,
                 adapterCalls, handlerCalls, backendThreadId, response>>
  /\ UNCHANGED <<agentProducers, events, streamState>>
  /\ UNCHANGED <<otherVars, requestVars, afterVars>>

\* getServerSideActions rejects: no list is resolved and the turn fails.
GetServerSideActionsThrows ==
  /\ pc = "getServerSideActions"
  /\ \E error \in ResolutionErrors : OuterCatch(error, outerProducers)
  /\ UNCHANGED <<getActionsCalls, actionsResolved, serverSideActions, actionInputs,
                 beforeHook, adapterCalls, handlerCalls, backendThreadId, response>>
  /\ UNCHANGED <<agentProducers, events, streamState>>
  /\ UNCHANGED <<otherVars, requestVars, afterVars>>

\* getServerSideActions returns; the action set is assembled and the before-hook is
\* called (direct dispatch), or the current agent is looked up first (delegation).
GetServerSideActionsReturns ==
  /\ pc = "getServerSideActions"
  /\ \E resolved \in SeqsUpTo(ServerSideActionValues, MaxServerActions) :
       /\ serverSideActions' = resolved
       /\ actionsResolved' = TRUE
       /\ IF AgentMode /\ ~HasCurrentAgent(resolved, agentSession.agentName)
          THEN /\ OuterCatch("CopilotKitAgentDiscoveryError", outerProducers)
               /\ UNCHANGED <<actionInputs, beforeHook>>
          ELSE /\ actionInputs' =
                    IF AgentMode
                    THEN AllAvailableActions(resolved, agentSession.agentName, clientActions)
                    ELSE DirectActionInputs(resolved, clientActions)
               /\ beforeHook' = IF onBeforeRequest THEN "running" ELSE "notCalled"
               /\ pc' = "beforeHook"
               /\ UNCHANGED <<raised, thrown, outerProducers>>
  /\ UNCHANGED <<getActionsCalls, adapterCalls, handlerCalls, backendThreadId, response>>
  /\ UNCHANGED <<agentProducers, events, streamState>>
  /\ UNCHANGED <<otherVars, requestVars, afterVars>>

\* A before-hook whose failure is swallowed: the turn goes on to the backend.
BeforeHookThrowsSwallowed ==
  /\ pc = "beforeHook"
  /\ onBeforeRequest
  /\ beforeHook' = "threw"
  /\ IF AgentMode
     THEN /\ handlerCalls' = handlerCalls + 1
          /\ pc' = "remoteAgentHandler"
          /\ UNCHANGED adapterCalls
     ELSE /\ adapterCalls' = adapterCalls + 1
          /\ pc' = "adapterProcess"
          /\ UNCHANGED handlerCalls
  /\ UNCHANGED <<getActionsCalls, actionsResolved, serverSideActions, actionInputs,
                 backendThreadId, raised, thrown, response>>
  /\ UNCHANGED streamVars
  /\ UNCHANGED <<otherVars, requestVars, afterVars>>

\* The awaited before-hook throws (or rejects): the turn fails with its error.
BeforeHookThrows ==
  /\ pc = "beforeHook"
  /\ onBeforeRequest
  /\ beforeHook' = "threw"
  /\ \E error \in HookErrors : OuterCatch(error, outerProducers)
  /\ UNCHANGED <<getActionsCalls, actionsResolved, serverSideActions, actionInputs,
                 adapterCalls, handlerCalls, backendThreadId, response>>
  /\ UNCHANGED <<agentProducers, events, streamState>>
  /\ UNCHANGED <<otherVars, requestVars, afterVars>>

\* After the await of the before-hook: the backend is called, the remote agent's
\* streaming handler in agent delegation, the service adapter otherwise.
BeforeHookResumes(hookState) ==
  /\ pc = "beforeHook"
  /\ beforeHook' = hookState
  /\ IF AgentMode
     THEN /\ handlerCalls' = handlerCalls + 1
          /\ pc' = "remoteAgentHandler"
          /\ UNCHANGED adapterCalls
     ELSE /\ adapterCalls' = adapterCalls + 1
          /\ pc' = "adapterProcess"
          /\ UNCHANGED handlerCalls
  /\ UNCHANGED <<getActionsCalls, actionsResolved, serverSideActions, actionInputs,
                 backendThreadId, raised, thrown, response>>
  /\ UNCHANGED streamVars
  /\ UNCHANGED <<otherVars, requestVars, afterVars>>

\* A before-hook that is called but not awaited: the backend is called while it runs.
BeforeHookReturnsNotAwaited == BeforeHookResumes(beforeHook)

\* The awaited before-hook is over (or there is none): the backend is called.
BeforeHookReturns ==
  BeforeHookResumes(IF onBeforeRequest THEN "done" ELSE beforeHook)

\* serviceAdapter.process returns its result, having attached its producer.
AdapterProcessReturns ==
  /\ pc = "adapterProcess"
  /\ \E reported \in ThreadIds : backendThreadId' = reported
  /\ outerProducers' = Append(outerProducers, "adapter")
  /\ streamState' = "open"
  /\ pc' = "directReturn"
  /\ UNCHANGED <<getActionsCalls, actionsResolved, serverSideActions, actionInputs,
                 beforeHook, adapterCalls, handlerCalls, raised, thrown, response>>
  /\ UNCHANGED <<agentProducers, events>>
  /\ UNCHANGED <<otherVars, requestVars, afterVars>>

\* serviceAdapter.process rejects, before or after it attached its producer.
AdapterProcessThrows ==
  /\ pc = "adapterProcess"
  /\ \E error \in BackendErrors, attached \in BOOLEAN :
       /\ OuterCatch(error,
                     IF attached THEN Append(outerProducers, "adapter") ELSE outerProducers)
       /\ streamState' = IF attached THEN "open" ELSE streamState
  /\ UNCHANGED <<getActionsCalls, actionsResolved, serverSideActions, actionInputs,
                 beforeHook, adapterCalls, handlerCalls, backendThreadId, response>>
  /\ UNCHANGED <<agentProducers, events>>
  /\ UNCHANGED <<otherVars, requestVars, afterVars>>

\* A direct-dispatch return that first awaits the output-messages promise chain.
ReturnDirectAwaited ==
  /\ pc = "directReturn"
  /\ outputMessagesPromise # "pending"
  /\ afterThen' = "registered"
  /\ response' =
       [threadId |-> Coalesce(reqThreadId, backendThreadId),
        eventSource |-> "outer",
        serverSideActions |-> serverSideActions,
        actionInputsWithoutAgents |->
          WithoutServerSideActions(actionInputs, serverSideActions)]
  /\ pc' = "returned"
  /\ UNCHANGED <<getActionsCalls, actionsResolved, serverSideActions, actionInputs,
                 beforeHook, adapterCalls, handlerCalls, backendThreadId, raised, thrown>>
  /\ UNCHANGED streamVars
  /\ UNCHANGED <<outputMessagesPromise, afterHook, unhandledRejection>>
  /\ UNCHANGED <<otherVars, requestVars>>

\* Direct dispatch, after the adapter: the thread id is resolved, the after-hook is
\* chained onto the output-messages promise, and the response is returned.
ReturnDirect ==
  /\ pc = "directReturn"
  /\ afterThen' = "registered"
  /\ response' =
       [threadId |-> Coalesce(reqThreadId, backendThreadId),
        eventSource |-> "outer",
        serverSideActions |-> serverSideActions,
        actionInputsWithoutAgents |->
          WithoutServerSideActions(actionInputs, serverSideActions)]
  /\ pc' = "returned"
  /\ UNCHANGED <<getActionsCalls, actionsResolved, serverSideActions, actionInputs,
                 beforeHook, adapterCalls, handlerCalls, backendThreadId, raised, thrown>>
  /\ UNCHANGED streamVars
  /\ UNCHANGED <<outputMessagesPromise, afterHook, unhandledRejection>>
  /\ UNCHANGED <<otherVars, requestVars>>

\* remoteAgentHandler returns the agent's stream, which is forwarded into a new
\* event source.
RemoteAgentHandlerReturns ==
  /\ pc = "remoteAgentHandler"
  /\ \E reported \in AgentReportedThreadIds(AgentThreadId) : backendThreadId' = reported
  /\ agentProducers' = Append(agentProducers, "forward")
  /\ streamState' = "open"
  /\ pc' = "agentReturn"
  /\ UNCHANGED <<getActionsCalls, actionsResolved, serverSideActions, actionInputs,
                 beforeHook, adapterCalls, handlerCalls, raised, thrown, response>>
  /\ UNCHANGED <<outerProducers, events>>
  /\ UNCHANGED <<otherVars, requestVars, afterVars>>

\* remoteAgentHandler rejects: logged and re-thrown to processRuntimeRequest's catch.
RemoteAgentHandlerThrows ==
  /\ pc = "remoteAgentHandler"
  /\ \E error \in BackendErrors : OuterCatch(error, outerProducers)
  /\ UNCHANGED <<getActionsCalls, actionsResolved, serverSideActions, actionInputs,
                 beforeHook, adapterCalls, handlerCalls, backendThreadId, response>>
  /\ UNCHANGED <<agentProducers, events, streamState>>
  /\ UNCHANGED <<otherVars, requestVars, afterVars>>

\* Agent delegation, after the handler: the after-hook is chained onto the
\* output-messages promise and the response is returned.
ReturnAgent ==
  /\ pc = "agentReturn"
  /\ afterThen' = "registered"
  /\ response' =
       [threadId |-> AgentThreadId,
        eventSource |-> "agent",
        serverSideActions |-> serverSideActions,
        actionInputsWithoutAgents |-> actionInputs]
  /\ pc' = "returned"
  /\ UNCHANGED <<getActionsCalls, actionsResolved, serverSideActions, actionInputs,
                 beforeHook, adapterCalls, handlerCalls, backendThreadId, raised, thrown>>
  /\ UNCHANGED streamVars
  /\ UNCHANGED <<outputMessagesPromise, afterHook, unhandledRejection>>
  /\ UNCHANGED <<otherVars, requestVars>>

\* The attached producer pushes one more event into the event source.
EmitEvent ==
  /\ streamState = "open"
  /\ Len(events) < MaxEvents
  /\ events' = Append(events, "event")
  /\ UNCHANGED <<outerProducers, agentProducers, streamState>>
  /\ UNCHANGED <<otherVars, requestVars, processorVars, afterVars>>

\* The producer's stream ends, normally or with an error.
EndStream ==
  /\ streamState = "open"
  /\ \E end \in {"completed", "errored"} : streamState' = end
  /\ UNCHANGED <<outerProducers, agentProducers, events>>
  /\ UNCHANGED <<otherVars, requestVars, processorVars, afterVars>>

\* The caller settles its output-messages promise.
SettleOutputMessages ==
  /\ outputMessagesPromise = "pending"
  /\ \E settled \in {"resolved", "rejected"} : outputMessagesPromise' = settled
  /\ UNCHANGED <<afterThen, afterHook, unhandledRejection>>
  /\ UNCHANGED <<otherVars, requestVars, processorVars, streamVars>>

\* A .then callback that runs as soon as it is registered, whatever the promise's state.
AfterThenCallbackEager ==
  /\ afterThen = "registered"
  /\ afterThen' = "ran"
  /\ afterHook' = IF onAfterRequest THEN "ok" ELSE afterHook
  /\ UNCHANGED <<outputMessagesPromise, unhandledRejection>>
  /\ UNCHANGED <<otherVars, requestVars, processorVars, streamVars>>

\* outputMessagesPromise.then(...): the after-hook is called and its return value
\* dropped. A synchronous throw rejects the chain, which .catch swallows; a rejected
\* promise returned by the hook is chained to nothing.
AfterThenCallback ==
  /\ afterThen = "registered"
  /\ outputMessagesPromise = "resolved"
  /\ afterThen' = "ran"
  /\ IF onAfterRequest
     THEN \E outcome \in {"ok", "threw", "rejected"} :
            /\ afterHook' = outcome
            /\ unhandledRejection' = (outcome = "rejected")
     ELSE UNCHANGED <<afterHook, unhandledRejection>>
  /\ UNCHANGED outputMessagesPromise
  /\ UNCHANGED <<otherVars, requestVars, processorVars, streamVars>>

\* .catch((_error) => {}): a rejected output-messages promise skips the after-hook.
AfterCatchCallback ==
  /\ afterThen = "registered"
  /\ outputMessagesPromise = "rejected"
  /\ afterThen' = "skipped"
  /\ UNCHANGED <<outputMessagesPromise, afterHook, unhandledRejection>>
  /\ UNCHANGED <<otherVars, requestVars, processorVars, streamVars>>

Next ==
  \/ StartTurn
  \/ GetServerSideActionsThrows
  \/ GetServerSideActionsReturns
  \/ BeforeHookThrows
  \/ BeforeHookReturns
  \/ AdapterProcessReturns
  \/ AdapterProcessThrows
  \/ ReturnDirect
  \/ RemoteAgentHandlerReturns
  \/ RemoteAgentHandlerThrows
  \/ ReturnAgent
  \/ EmitEvent
  \/ EndStream
  \/ SettleOutputMessages
  \/ AfterThenCallback
  \/ AfterCatchCallback

Spec == Init /\ [][Next]_vars

\* ------------------------------------------------ discovery and loadAgentState
\* `${endpoint.url}/info`
InfoUrl(endpoint) == endpoint.url \o "/info"

\* `${cpkEndpoint.url}/agents/state`
StateUrl(endpoint) == endpoint.url \o "/agents/state"

\* if (!response.ok): 404 is a discovery error, any other status a resolved error.
NotOkError(status, fetchUrl) ==
  IF status = 404
  THEN Err("CopilotKitApiDiscoveryError", fetchUrl, 0, NoError)
  ELSE Err("ResolvedCopilotKitError", fetchUrl, status, NoError)

\* A catch block that wraps whatever it catches.
DirectCatchRewrapping(error, fetchUrl) ==
  Err("CopilotKitLowLevelError", fetchUrl, 0, error.kind)

\* catch (error): a CopilotKitError is re-thrown, anything else is wrapped.
DirectCatch(error, fetchUrl) ==
  IF IsCopilotKitError(error.kind)
  THEN error
  ELSE Err("CopilotKitLowLevelError", fetchUrl, 0, error.kind)

\* What the try block throws for an outcome of the fetch (NoErr when it returns).
TryError(outcome, fetchUrl) ==
  IF outcome.kind = "threw" THEN outcome.error
  ELSE IF ~IsOk(outcome.status) THEN NotOkError(outcome.status, fetchUrl)
  ELSE IF ~outcome.validJson THEN Err("SyntaxError", Undefined, 0, NoError)
  ELSE NoErr

\* What the try/catch as a whole throws (NoErr when it returns).
DirectFetchError(outcome, fetchUrl) ==
  LET error == TryError(outcome, fetchUrl)
  IN IF error = NoErr THEN NoErr ELSE DirectCatch(error, fetchUrl)

\* (data ?? []).map(entry => ({name, id, description, endpoint}))
EndpointAgents(names, k) == [i \in 1..Len(names) |-> [name |-> names[i], endpoint |-> k]]

\* agentsWithEndpoints.find(agent => agent.name === agentName)
FindAgent(list, name) ==
  IF \E i \in 1..Len(list) : list[i].name = name
  THEN list[CHOOSE i \in 1..Len(list) :
              /\ list[i].name = name
              /\ \A j \in 1..(i - 1) : list[j].name # name]
  ELSE NoAgent

\* JSON.stringify, as the sequence of the tokens of its text.
Quote(str) == "\"" \o str \o "\""

RECURSIVE CommaSeparated(_)
CommaSeparated(parts) ==
  IF parts = <<>> THEN <<>>
  ELSE IF Len(parts) = 1 THEN parts[1]
  ELSE parts[1] \o <<",">> \o CommaSeparated(Tail(parts))

JSONStringifyArray(items) ==
  <<"[">> \o CommaSeparated([i \in 1..Len(items) |-> <<Quote(items[i])>>]) \o <<"]">>

JSONStringifyObject(entries) ==
  <<"{">>
  \o CommaSeparated([i \in 1..Len(entries) |->
                       <<Quote(entries[i].key), ":">> \o JSONStringifyArray(entries[i].value)])
  \o <<"}">>

\* const { messages, ...stateWithoutMessages } = state
MessagesOf(state) ==
  IF \E i \in 1..Len(state) : state[i].key = "messages"
  THEN state[CHOOSE i \in 1..Len(state) : state[i].key = "messages"].value
  ELSE Undefined

StateWithoutMessages(state) ==
  LET NotMessages(entry) == entry.key # "messages"
  IN SelectSeq(state, NotMessages)

\* The message normalisation: one CopilotKit message for each LangChain message.
langchainMessagesToCopilotKit(messages) ==
  IF messages = Undefined THEN <<>>
  ELSE [i \in 1..Len(messages) |-> "ck-" \o messages[i]]

\* threadId || ""
OrEmpty(threadId) == IF threadId = Undefined THEN "" ELSE threadId

\* The response of loadAgentState for a LangGraph Platform agent, from the state read.
PlatformLoadResult(state, threadId) ==
  IF Len(state) = 0
  THEN [threadId |-> OrEmpty(threadId), threadExists |-> FALSE,
        state |-> JSONStringifyObject(<<>>), messages |-> JSONStringifyArray(<<>>)]
  ELSE [threadId |-> OrEmpty(threadId), threadExists |-> TRUE,
        state |-> JSONStringifyObject(StateWithoutMessages(state)),
        messages |-> JSONStringifyArray(langchainMessagesToCopilotKit(MessagesOf(state)))]

\* What a CopilotKit endpoint answers on /agents/state.
LoadStateData ==
  [threadId : {"t1"}, threadExists : BOOLEAN,
   state : {<<>>, <<[key |-> "k", value |-> <<"v">>]>>},
   messages : {<<>>, <<"c1">>}]

EndpointsInit ==
  /\ DedupeIdle
  /\ TurnIdle
  /\ ForwardIdle
  /\ remoteEndpointDefinitions \in SeqsUpTo(EndpointDefinitions, MaxEndpoints)
  /\ \/ /\ operation = "discoverAgentsFromEndpoints"
        /\ loadThreadId = ""
        /\ loadAgentName = Undefined
     \/ /\ operation = "loadAgentState"
        /\ loadThreadId \in {"t1", ""}
        /\ loadAgentName \in AgentNames
  /\ epc = "reduce"
  /\ resolvedCount = 0
  /\ inFlight = {}
  /\ queried = <<>>
  /\ answers = <<>>
  /\ agents = <<>>
  /\ lastFetch = NoFetch
  /\ opError = NoErr
  /\ agentWithEndpoint = NoAgent
  /\ getStateOutcome = "none"
  /\ threadState = <<>>
  /\ loadResult = NoLoadResult

\* A reduce callback that queries its endpoint without awaiting the accumulator.
IssueQueryNoAwait ==
  /\ epc = "reduce"
  /\ \E k \in 1..Len(remoteEndpointDefinitions) :
       /\ \A i \in 1..Len(queried) : queried[i] # k
       /\ inFlight' = inFlight \cup {k}
       /\ queried' = Append(queried, k)
  /\ UNCHANGED <<remoteEndpointDefinitions, operation, loadThreadId, loadAgentName, epc,
                 resolvedCount, answers, agents, lastFetch, opError, agentWithEndpoint,
                 getStateOutcome, threadState, loadResult>>
  /\ UNCHANGED <<dedupeVars, turnVars, forwardVars>>

\* The reduce callback of the next endpoint resumes from `await acc`, the promise of
\* the endpoint before it having resolved, and issues its query.
IssueQuery ==
  /\ epc = "reduce"
  /\ resolvedCount < Len(remoteEndpointDefinitions)
  /\ Len(queried) = resolvedCount
  /\ inFlight' = inFlight \cup {resolvedCount + 1}
  /\ queried' = Append(queried, resolvedCount + 1)
  /\ UNCHANGED <<remoteEndpointDefinitions, operation, loadThreadId, loadAgentName, epc,
                 resolvedCount, answers, agents, lastFetch, opError, agentWithEndpoint,
                 getStateOutcome, threadState, loadResult>>
  /\ UNCHANGED <<dedupeVars, turnVars, forwardVars>>

\* client.assistants.search() of a LangGraph Platform endpoint settles: its agents
\* are appended, or its error rejects the reduce as it is.
AssistantsSearchSettles ==
  /\ epc = "reduce"
  /\ \E k \in inFlight :
       /\ remoteEndpointDefinitions[k].type = LangGraphPlatformEndpointType
       /\ inFlight' = inFlight \ {k}
       /\ \/ \E names \in SeqsUpTo(AgentNames, MaxAgentsPerEndpoint) :
               /\ agents' = agents \o EndpointAgents(names, k)
               /\ answers' = Append(answers, [endpoint |-> k, names |-> names])
               /\ resolvedCount' = resolvedCount + 1
               /\ UNCHANGED <<epc, opError>>
          \/ \E error \in SdkThrowables :
               /\ epc' = "failed"
               /\ opError' = error
               /\ UNCHANGED <<agents, answers, resolvedCount>>
  /\ UNCHANGED <<remoteEndpointDefinitions, operation, loadThreadId, loadAgentName,
                 queried, lastFetch, agentWithEndpoint, getStateOutcome, threadState,
                 loadResult>>
  /\ UNCHANGED <<dedupeVars, turnVars, forwardVars>>

\* A discovery that takes an endpoint whose fetch fails as one with no agents.
InfoFetchSettlesSwallowing ==
  /\ epc = "reduce"
  /\ \E k \in inFlight :
       LET endpoint == remoteEndpointDefinitions[k]
           fetchUrl == InfoUrl(endpoint)
       IN /\ endpoint.type # LangGraphPlatformEndpointType
          /\ inFlight' = inFlight \ {k}
          /\ \E outcome \in FetchOutcomes(endpoint.url) :
               /\ lastFetch' = [fetchUrl |-> fetchUrl, kind |-> outcome.kind,
                                status |-> outcome.status, error |-> outcome.error,
                                validJson |-> outcome.validJson]
               /\ \E names \in SeqsUpTo(AgentNames, MaxAgentsPerEndpoint) :
                    LET kept == IF DirectFetchError(outcome, fetchUrl) = NoErr
                                THEN names ELSE <<>>
                    IN /\ agents' = agents \o EndpointAgents(kept, k)
                       /\ answers' = Append(answers, [endpoint |-> k, names |-> kept])
               /\ resolvedCount' = resolvedCount + 1
               /\ UNCHANGED <<epc, opError>>
  /\ UNCHANGED <<remoteEndpointDefinitions, operation, loadThreadId, loadAgentName,
                 queried, agentWithEndpoint, getStateOutcome, threadState, loadResult>>
  /\ UNCHANGED <<dedupeVars, turnVars, forwardVars>>

\* The POST of `${endpoint.url}/info` settles: the endpoint's agents are appended, or
\* the classified error rejects the reduce.
InfoFetchSettles ==
  /\ epc = "reduce"
  /\ \E k \in inFlight :
       LET endpoint == remoteEndpointDefinitions[k]
           fetchUrl == InfoUrl(endpoint)
       IN /\ endpoint.type # LangGraphPlatformEndpointType
          /\ inFlight' = inFlight \ {k}
          /\ \E outcome \in FetchOutcomes(endpoint.url) :
               LET error == DirectFetchError(outcome, fetchUrl)
               IN /\ lastFetch' = [fetchUrl |-> fetchUrl, kind |-> outcome.kind,
                                   status |-> outcome.status, error |-> outcome.error,
                                   validJson |-> outcome.validJson]
                  /\ IF error = NoErr
                     THEN \E names \in SeqsUpTo(AgentNames, MaxAgentsPerEndpoint) :
                            /\ agents' = agents \o EndpointAgents(names, k)
                            /\ answers' = Append(answers, [endpoint |-> k, names |-> names])
                            /\ resolvedCount' = resolvedCount + 1
                            /\ UNCHANGED <<epc, opError>>
                     ELSE /\ epc' = "failed"
                          /\ opError' = error
                          /\ UNCHANGED <<agents, answers, resolvedCount>>
  /\ UNCHANGED <<remoteEndpointDefinitions, operation, loadThreadId, loadAgentName,
                 queried, agentWithEndpoint, getStateOutcome, threadState, loadResult>>
  /\ UNCHANGED <<dedupeVars, turnVars, forwardVars>>

\* The last promise of the reduce has resolved: discoverAgentsFromEndpoints returns.
DiscoverAgentsReturns ==
  /\ epc = "reduce"
  /\ operation = "discoverAgentsFromEndpoints"
  /\ resolvedCount = Len(remoteEndpointDefinitions)
  /\ epc' = "done"
  /\ UNCHANGED <<remoteEndpointDefinitions, operation, loadThreadId, loadAgentName,
                 resolvedCount, inFlight, queried, answers, agents, lastFetch, opError,
                 agentWithEndpoint, getStateOutcome, threadState, loadResult>>
  /\ UNCHANGED <<dedupeVars, turnVars, forwardVars>>

\* loadAgentState after its await of the discovery: the agent is looked up by name and
\* its endpoint's state call is issued.
LoadAgentStateFindsAgent ==
  /\ epc = "reduce"
  /\ operation = "loadAgentState"
  /\ resolvedCount = Len(remoteEndpointDefinitions)
  /\ LET found == FindAgent(agents, loadAgentName)
     IN IF found = NoAgent
        THEN /\ epc' = "failed"
             /\ opError' = Err(PlainError, Undefined, 0, NoError)
             /\ UNCHANGED <<agentWithEndpoint, getStateOutcome>>
        ELSE /\ agentWithEndpoint' = found
             /\ UNCHANGED opError
             /\ IF remoteEndpointDefinitions[found.endpoint].type
                     = LangGraphPlatformEndpointType
                THEN /\ epc' = "getState"
                     /\ getStateOutcome' = "pending"
                ELSE /\ epc' = "stateFetch"
                     /\ UNCHANGED getStateOutcome
  /\ UNCHANGED <<remoteEndpointDefinitions, operation, loadThreadId, loadAgentName,
                 resolvedCount, inFlight, queried, answers, agents, lastFetch,
                 threadState, loadResult>>
  /\ UNCHANGED <<dedupeVars, turnVars, forwardVars>>

\* A thread-state read whose failure rejects loadAgentState.
GetStateSettlesPropagating ==
  /\ epc = "getState"
  /\ \E outcome \in {"threw", "returned"}, values \in ThreadStates :
       /\ getStateOutcome' = outcome
       /\ IF outcome = "threw"
          THEN /\ epc' = "failed"
               /\ opError' = Err(PlainError, Undefined, 0, NoError)
               /\ UNCHANGED <<threadState, loadResult>>
          ELSE /\ epc' = "done"
               /\ threadState' = values
               /\ loadResult' = PlatformLoadResult(values, loadThreadId)
               /\ UNCHANGED opError
  /\ UNCHANGED <<remoteEndpointDefinitions, operation, loadThreadId, loadAgentName,
                 resolvedCount, inFlight, queried, answers, agents, lastFetch,
                 agentWithEndpoint>>
  /\ UNCHANGED <<dedupeVars, turnVars, forwardVars>>

\* client.threads.getState settles: its values are the state, or, when it throws, the
\* state stays {}; the response is built from the state.
GetStateSettles ==
  /\ epc = "getState"
  /\ \E outcome \in {"threw", "returned"}, values \in ThreadStates :
       LET state == IF outcome = "threw" THEN <<>> ELSE values
       IN /\ getStateOutcome' = outcome
          /\ threadState' = state
          /\ loadResult' = PlatformLoadResult(state, loadThreadId)
  /\ epc' = "done"
  /\ UNCHANGED <<remoteEndpointDefinitions, operation, loadThreadId, loadAgentName,
                 resolvedCount, inFlight, queried, answers, agents, lastFetch, opError,
                 agentWithEndpoint>>
  /\ UNCHANGED <<dedupeVars, turnVars, forwardVars>>

\* The POST of `${cpkEndpoint.url}/agents/state` settles: the endpoint's data is
\* re-serialized, or the classified error rejects loadAgentState.
StateFetchSettles ==
  /\ epc = "stateFetch"
  /\ LET endpoint == remoteEndpointDefinitions[agentWithEndpoint.endpoint]
         fetchUrl == StateUrl(endpoint)
     IN \E outcome \in FetchOutcomes(endpoint.url) :
          LET error == DirectFetchError(outcome, fetchUrl)
          IN /\ lastFetch' = [fetchUrl |-> fetchUrl, kind |-> outcome.kind,
                              status |-> outcome.status, error |-> outcome.error,
                              validJson |-> outcome.validJson]
             /\ IF error = NoErr
                THEN \E data \in LoadStateData :
                       /\ epc' = "done"
                       /\ loadResult' =
                            [threadId |-> data.threadId, threadExists |-> data.threadExists,
                             state |-> JSONStringifyObject(data.state),
                             messages |-> JSONStringifyArray(data.messages)]
                       /\ UNCHANGED opError
                ELSE /\ epc' = "failed"
                     /\ opError' = error
                     /\ UNCHANGED loadResult
  /\ UNCHANGED <<remoteEndpointDefinitions, operation, loadThreadId, loadAgentName,
                 resolvedCount, inFlight, queried, answers, agents, agentWithEndpoint,
                 getStateOutcome, threadState>>
  /\ UNCHANGED <<dedupeVars, turnVars, forwardVars>>

NextEndpoints ==
  \/ IssueQuery
  \/ AssistantsSearchSettles
  \/ InfoFetchSettles
  \/ DiscoverAgentsReturns
  \/ LoadAgentStateFindsAgent
  \/ GetStateSettles
  \/ StateFetchSettles

SpecEndpoints == EndpointsInit /\ [][NextEndpoints]_vars

\* ------------------------------------- forwarding the remote agent's stream
\* eventStream$.next(event): a subject that has ended takes no more events.
SubjectNext(state, sent, event) == IF state = "open" THEN Append(sent, event) ELSE sent

\* eventStream$.error(err)
SubjectError(state) == IF state = "open" THEN "errored" ELSE state

\* eventStream$.complete()
SubjectComplete(state) == IF state = "open" THEN "completed" ELSE state

\* processAgentRequest has registered the forwarding callback on its new event source.
ForwardInit ==
  /\ DedupeIdle
  /\ TurnIdle
  /\ EndpointsIdle
  /\ sourceEvents = <<>>
  /\ sourceEnd = "open"
  /\ subscribed = FALSE
  /\ delivered = 0
  /\ observerClosed = FALSE
  /\ pushed = <<>>
  /\ subjectState = "open"

\* The remote agent produces one more event on its stream.
SourceEmits ==
  /\ sourceEnd = "open"
  /\ Len(sourceEvents) < MaxSourceEvents
  /\ \E event \in RuntimeEvents : sourceEvents' = Append(sourceEvents, event)
  /\ UNCHANGED <<sourceEnd, subscribed, delivered, observerClosed, pushed, subjectState>>
  /\ UNCHANGED <<dedupeVars, turnVars, endpointVars>>

\* The remote agent's stream ends, with an error or by completing.
SourceEnds ==
  /\ sourceEnd = "open"
  /\ \E end \in {"error", "complete"} : sourceEnd' = end
  /\ UNCHANGED <<sourceEvents, subscribed, delivered, observerClosed, pushed, subjectState>>
  /\ UNCHANGED <<dedupeVars, turnVars, endpointVars>>

\* The callback handed to eventSource.stream runs: from(stream).subscribe(...).
Subscribe ==
  /\ ~subscribed
  /\ subscribed' = TRUE
  /\ UNCHANGED <<sourceEvents, sourceEnd, delivered, observerClosed, pushed, subjectState>>
  /\ UNCHANGED <<dedupeVars, turnVars, endpointVars>>

\* A next handler that pushes each event twice.
ObserverNextDuplicating ==
  /\ subscribed
  /\ ~observerClosed
  /\ delivered < Len(sourceEvents)
  /\ delivered' = delivered + 1
  /\ pushed' = SubjectNext(subjectState,
                           SubjectNext(subjectState, pushed, sourceEvents[delivered + 1]),
                           sourceEvents[delivered + 1])
  /\ UNCHANGED <<sourceEvents, sourceEnd, subscribed, observerClosed, subjectState>>
  /\ UNCHANGED <<dedupeVars, turnVars, endpointVars>>

\* next: (event) => eventStream$.next(event), for the source's next event.
ObserverNext ==
  /\ subscribed
  /\ ~observerClosed
  /\ delivered < Len(sourceEvents)
  /\ delivered' = delivered + 1
  /\ pushed' = SubjectNext(subjectState, pushed, sourceEvents[delivered + 1])
  /\ UNCHANGED <<sourceEvents, sourceEnd, subscribed, observerClosed, subjectState>>
  /\ UNCHANGED <<dedupeVars, turnVars, endpointVars>>

\* An error handler that only logs the error.
ObserverErrorLogOnly ==
  /\ subscribed
  /\ ~observerClosed
  /\ delivered = Len(sourceEvents)
  /\ sourceEnd = "error"
  /\ observerClosed' = TRUE
  /\ UNCHANGED <<sourceEvents, sourceEnd, subscribed, delivered, pushed, subjectState>>
  /\ UNCHANGED <<dedupeVars, turnVars, endpointVars>>

\* error: (err) => { eventStream$.error(err); eventStream$.complete(); }, once the
\* source's events have all been handed over.
ObserverError ==
  /\ subscribed
  /\ ~observerClosed
  /\ delivered = Len(sourceEvents)
  /\ sourceEnd = "error"
  /\ observerClosed' = TRUE
  /\ subjectState' = SubjectComplete(SubjectError(subjectState))
  /\ UNCHANGED <<sourceEvents, sourceEnd, subscribed, delivered, pushed>>
  /\ UNCHANGED <<dedupeVars, turnVars, endpointVars>>

\* complete: () => eventStream$.complete()
ObserverComplete ==
  /\ subscribed
  /\ ~observerClosed
  /\ delivered = Len(sourceEvents)
  /\ sourceEnd = "complete"
  /\ observerClosed' = TRUE
  /\ subjectState' = SubjectComplete(subjectState)
  /\ UNCHANGED <<sourceEvents, sourceEnd, subscribed, delivered, pushed>>
  /\ UNCHANGED <<dedupeVars, turnVars, endpointVars>>

NextForward ==
  \/ SourceEmits
  \/ SourceEnds
  \/ Subscribe
  \/ ObserverNext
  \/ ObserverError
  \/ ObserverComplete

\* The event source's consumer runs the registered callback, and a subscription hands
\* its observer every notification of the source; the remote agent itself may go on
\* for ever.
SpecForward ==
  /\ ForwardInit
  /\ [][NextForward]_vars
  /\ WF_vars(Subscribe)
  /\ WF_vars(ObserverNext)
  /\ WF_vars(ObserverError)
  /\ WF_vars(ObserverComplete)

\* ==================================================================== claims

Input == listA \o listB

\* The index of the first entry of tools named n.
FirstIndex(tools, n) ==
  CHOOSE i \in 1..Len(tools) :
    /\ tools[i].name = n
    /\ \A j \in 1..(i - 1) : tools[j].name # n

\* C1: the deduplicator's output holds each distinct name of its input exactly once,
\* the entry kept for a name is the input's first entry with that name, the kept
\* entries are in the input's relative order, and for a name in both A and B the one
\* entry of dedupe(A ++ B) is A's occurrence.
C1_FirstOccurrenceWins ==
  dedupeDone =>
    /\ \A i, j \in 1..Len(deduped) : i # j => deduped[i].name # deduped[j].name
    /\ NamesOf(deduped) = NamesOf(Input)
    /\ \A i \in 1..Len(deduped) : deduped[i] = Input[FirstIndex(Input, deduped[i].name)]
    /\ \A i, j \in 1..Len(deduped) :
         i < j => FirstIndex(Input, deduped[i].name) < FirstIndex(Input, deduped[j].name)
    /\ \A x \in NamesOf(listA) \cap NamesOf(listB) :
         /\ Cardinality({ i \in 1..Len(deduped) : deduped[i].name = x }) = 1
         /\ \A i \in 1..Len(deduped) :
              deduped[i].name = x => deduped[i] = listA[FirstIndex(listA, x)]

\* C1 witness: A and B both hold a name, with different payloads, and the result
\* holds A's.
C1_Witness ==
  /\ dedupeDone
  /\ \E a \in 1..Len(listA), b \in 1..Len(listB) :
       /\ listA[a].name = listB[b].name
       /\ listA[a].description # listB[b].description
       /\ \E i \in 1..Len(deduped) : deduped[i] = listA[a]
  /\ Len(deduped) < Len(Input)

\* The remote agent has been handed its action set, or the response was returned.
Delegated == AgentMode /\ (handlerCalls > 0 \/ pc = "returned")

\* C2 (as claimed): in agent delegation on agent A, the delegated action set never
\* holds an entry named A, whatever the server-side and the client-declared actions.
C2_NoEntryNamedAgent ==
  Delegated =>
    /\ agentSession.agentName \notin NamesOf(actionInputs)
    /\ agentSession.agentName \notin NamesOf(response.actionInputsWithoutAgents)

\* C2 (amended): the delegated action set never holds agent A's own remote-agent
\* action; an entry named A is in it only if a non-agent server-side action or a
\* client-declared action is named A, and it is then that action's descriptor.
C2_NoSelfAgentAction ==
  Delegated =>
    \A set \in {actionInputs, response.actionInputsWithoutAgents} :
      \A i \in 1..Len(set) :
        set[i].name = agentSession.agentName =>
          /\ set[i].description # "agent"
          /\ \/ \E k \in 1..Len(serverSideActions) :
                  /\ serverSideActions[k].name = agentSession.agentName
                  /\ ~isRemoteAgentAction(serverSideActions[k])
                  /\ set[i] = ToActionInput(serverSideActions[k])
             \/ \E k \in 1..Len(clientActions) : set[i] = clientActions[k]

\* C2 witness: agent A's turn was delegated with agents A and B resolved; B's action
\* is in the returned delegated set and no entry named A is.
C2_Witness ==
  /\ AgentMode
  /\ pc = "returned"
  /\ \E i, j \in 1..Len(serverSideActions) :
       /\ serverSideActions[i].name = "A" /\ isRemoteAgentAction(serverSideActions[i])
       /\ serverSideActions[j].name = "B" /\ isRemoteAgentAction(serverSideActions[j])
  /\ "B" \in NamesOf(response.actionInputsWithoutAgents)
  /\ "A" \notin NamesOf(response.actionInputsWithoutAgents)

\* C3 (as claimed): the response's threadId is the request's when the request carries
\* one, and the one the backend reported otherwise.
C3_ThreadIdResolution ==
  pc = "returned" =>
    response.threadId = IF reqThreadId # Undefined THEN reqThreadId ELSE backendThreadId

\* C4 (as claimed): every returned response carries a resolved, non-empty threadId.
C4_ThreadIdNonEmpty ==
  pc = "returned" => response.threadId \in ThreadIds

\* C5: with a before-hook configured, the backend has been called, and an event has
\* been pushed by its producer, only once the before-hook has completed.
C5_BeforeHookFirst ==
  onBeforeRequest =>
    ((adapterCalls > 0 \/ handlerCalls > 0 \/ streamState # "idle" \/ events # <<>>)
       => beforeHook = "done")

\* C5 witness: the before-hook completed, the service adapter was called and its
\* producer has pushed an event.
C5_Witness ==
  /\ onBeforeRequest
  /\ beforeHook = "done"
  /\ adapterCalls > 0
  /\ events # <<>>

\* C6: the after-hook is called only once the output-messages promise has resolved
\* and only in a turn that returned its response; never while the promise is
\* pending, never when it rejected, never in a failed turn.
C6_AfterHookTiming ==
  /\ (afterHook # "notCalled" \/ afterThen = "ran") =>
       /\ outputMessagesPromise = "resolved"
       /\ pc = "returned"
       /\ thrown = NoError
  /\ pc = "failed" => (afterThen = "none" /\ afterHook = "notCalled")

\* C6 witness: the after-hook ran, in agent delegation, after the promise resolved.
C6_Witness ==
  /\ onAfterRequest
  /\ AgentMode
  /\ afterHook = "ok"
  /\ outputMessagesPromise = "resolved"

\* C7 (as claimed): a failing after-hook, throwing or returning a promise that
\* rejects, is caught and discarded: no error escapes uncaught.
C7_AfterHookFailureDiscarded ==
  afterHook \in {"threw", "rejected"} => ~unhandledRejection

\* C8: once the backend call has returned, the return of the response is enabled
\* whatever the state of the output-messages promise: it is never waited for.
C8_ReturnNeverWaits ==
  /\ pc = "directReturn" => ENABLED ReturnDirect
  /\ pc = "agentReturn" => ENABLED ReturnAgent

\* C8 witness: the response is returned and an event has been pushed while the
\* output-messages promise is still pending and the after-hook has not run.
C8_Witness ==
  /\ pc = "returned"
  /\ outputMessagesPromise = "pending"
  /\ afterThen = "registered"
  /\ onAfterRequest
  /\ events # <<>>

\* The resolved server-side actions hold none named as the session's agent.
NoActionNamedAsAgent ==
  /\ agentSession.present
  /\ actionsResolved
  /\ agentSession.agentName \notin NamesOf(serverSideActions)

\* The turn failed with an agent-discovery error, no hook and no handler called.
AgentDiscoveryFailure ==
  /\ pc = "failed"
  /\ thrown = "CopilotKitAgentDiscoveryError"
  /\ beforeHook = "notCalled"
  /\ handlerCalls = 0

\* C9 (as claimed): a turn with an agent session whose agentName matches no resolved
\* server-side action fails with an agent-discovery error, with neither the
\* before-hook nor a remote agent handler called.
C9_AgentNotFoundAnyMode ==
  NoActionNamedAsAgent => AgentDiscoveryFailure

\* C9 (amended): the same, for a turn whose agent processing is not delegated to the
\* service adapter.
C9_AgentNotFound ==
  (NoActionNamedAsAgent /\ ~delegateAgentProcessingToServiceAdapter)
    => AgentDiscoveryFailure

\* C9 witness: a before-hook is configured, the agent is not among the resolved
\* actions, and the turn failed without calling the hook.
C9_Witness ==
  /\ NoActionNamedAsAgent
  /\ ~delegateAgentProcessingToServiceAdapter
  /\ onBeforeRequest
  /\ serverSideActions # <<>>
  /\ AgentDiscoveryFailure

\* C10: with no agent session and the EmptyAdapter the turn fails with a misuse error
\* at once: no action assembly, no before-hook, no adapter call, nothing on the event
\* source.
C10_MisuseRejected ==
  (~agentSession.present /\ serviceAdapter = "EmptyAdapter" /\ pc # "start") =>
    /\ pc = "failed"
    /\ thrown = "CopilotKitMisuseError"
    /\ getActionsCalls = 0
    /\ ~actionsResolved
    /\ beforeHook = "notCalled"
    /\ adapterCalls = 0
    /\ handlerCalls = 0
    /\ outerProducers = <<>>
    /\ agentProducers = <<>>
    /\ events = <<>>
    /\ streamState = "idle"

\* C10 witness: such a turn, with a before-hook configured, has failed with the
\* misuse error.
C10_Witness ==
  /\ ~agentSession.present
  /\ serviceAdapter = "EmptyAdapter"
  /\ onBeforeRequest
  /\ pc = "failed"
  /\ thrown = "CopilotKitMisuseError"

\* The generic chat error message has been sent on processRuntimeRequest's event source.
ErrorChatEmitted == \E i \in 1..Len(outerProducers) : outerProducers[i] = "errorChat"

\* C13 (as claimed): no event source ever has a second producer attached; the chat
\* error message, itself a producer, is sent only while no producer is attached.
C13_FedOnce ==
  /\ Len(outerProducers) <= 1
  /\ Len(agentProducers) <= 1
  /\ ErrorChatEmitted => outerProducers = <<"errorChat">>

\* C14: a failed turn rejects with the very error its catch block caught, and the chat
\* error message is sent if and only if that error is not a CopilotKitError; a turn
\* that has not failed has thrown nothing and sent no chat error message.
C14_FailurePropagation ==
  /\ pc = "failed" =>
       /\ raised # NoError
       /\ thrown = raised
       /\ ErrorChatEmitted <=> ~IsCopilotKitError(thrown)
  /\ pc # "failed" => (thrown = NoError /\ ~ErrorChatEmitted)

\* C14 witness: in agent delegation the remote agent handler rejected with a plain
\* Error, which reached the caller as it is, with the chat error message sent.
C14_Witness ==
  /\ AgentMode
  /\ pc = "failed"
  /\ handlerCalls > 0
  /\ thrown = PlainError
  /\ ErrorChatEmitted

UniqueNames(tools) ==
  \A i, j \in 1..Len(tools) : i # j => tools[i].name # tools[j].name

\* C17 (as claimed): in a returned response neither serverSideActions nor
\* actionInputsWithoutAgents holds two entries with the same name.
C17_UniqueNames ==
  pc = "returned" =>
    /\ UniqueNames(response.serverSideActions)
    /\ UniqueNames(response.actionInputsWithoutAgents)

\* C18: when the before-hook throws, in either mode, the turn fails with the hook's
\* error, neither the service adapter nor a remote agent handler is called, and the
\* after-hook is never chained nor called.
C18_BeforeHookFailureAborts ==
  beforeHook = "threw" =>
    /\ pc = "failed"
    /\ raised \in HookErrors
    /\ thrown = raised
    /\ adapterCalls = 0
    /\ handlerCalls = 0
    /\ streamState = "idle"
    /\ afterThen = "none"
    /\ afterHook = "notCalled"

\* C18 witness: in agent delegation, with an after-hook configured, the before-hook
\* threw and the turn failed.
C18_Witness ==
  /\ AgentMode
  /\ onAfterRequest
  /\ beforeHook = "threw"
  /\ pc = "failed"
  /\ outputMessagesPromise = "resolved"

\* The backend has been handed the assembled action set.
BackendCalled == adapterCalls > 0 \/ handlerCalls > 0

\* The entry of tools named n (tools holds one).
EntryNamed(tools, n) == tools[FirstIndex(tools, n)]

\* In set, the names of server come from server (its first entry of the name), the
\* other names from client, the server's entries come first, and nothing else is in it.
MergedByPriority(set, server, client) ==
  /\ NamesOf(set) = NamesOf(server) \cup NamesOf(client)
  /\ \A i \in 1..Len(set) :
       IF set[i].name \in NamesOf(server)
       THEN set[i] = ToActionInput(EntryNamed(server, set[i].name))
       ELSE set[i] = EntryNamed(client, set[i].name)
  /\ \A i, j \in 1..Len(set) :
       (i < j /\ set[j].name \in NamesOf(server)) => set[i].name \in NamesOf(server)

\* C19 (as claimed): in both modes the action set handed to the backend is the
\* server-side actions followed by the client-declared ones that are not remote-only,
\* a name in both resolving to the server-side action.
C19_ServerFirstNoRemoteOnly ==
  BackendCalled =>
    MergedByPriority(actionInputs, serverSideActions,
                     SelectSeq(clientActions, NotRemoteOnly))

\* serverSideActions without the current agent's own remote agent action.
OtherThanCurrentAgent(serverActions, agentName) ==
  LET Keep(action) == ~(isRemoteAgentAction(action) /\ action.name = agentName)
  IN SelectSeq(serverActions, Keep)

\* C19 (amended): in direct dispatch as claimed; in agent delegation the server-side
\* actions other than the current agent's own come first and win a name, and every
\* client-declared action, remote-only or not, is contributed.
C19_AssemblyPriority ==
  BackendCalled =>
    IF AgentMode
    THEN MergedByPriority(actionInputs,
                          OtherThanCurrentAgent(serverSideActions, agentSession.agentName),
                          clientActions)
    ELSE MergedByPriority(actionInputs, serverSideActions,
                          SelectSeq(clientActions, NotRemoteOnly))

\* C19 witness: direct dispatch, the adapter called, with a client-declared action
\* whose name a server-side action has too: the set holds the server-side descriptor.
C19_Witness ==
  /\ ~AgentMode
  /\ adapterCalls > 0
  /\ \E k \in 1..Len(clientActions) :
       /\ clientActions[k].available = "enabled"
       /\ clientActions[k].name \in NamesOf(serverSideActions)
       /\ \E i \in 1..Len(actionInputs) :
            /\ actionInputs[i].name = clientActions[k].name
            /\ actionInputs[i].description # "client"

\* The classes that are a transport failure.
TransportFailures == {"ResolvedCopilotKitError", "CopilotKitLowLevelError"}

\* C11: for the fetch of /info and of /agents/state alike: a 404 response makes the
\* operation fail with a discovery error carrying the attempted URL, any other non-2xx
\* response with a transport failure (carrying the status and the URL), a thrown
\* untyped error with a transport failure wrapping that error (and the URL), and a
\* thrown CopilotKitError with that very error, not re-wrapped.
C11_ErrorClassification ==
  /\ (lastFetch.kind = "response" /\ lastFetch.status = 404) =>
       /\ epc = "failed"
       /\ opError = Err("CopilotKitApiDiscoveryError", lastFetch.fetchUrl, 0, NoError)
  /\ (lastFetch.kind = "response" /\ ~IsOk(lastFetch.status) /\ lastFetch.status # 404) =>
       /\ epc = "failed"
       /\ opError.kind \in TransportFailures
       /\ opError.url = lastFetch.fetchUrl
       /\ opError.status = lastFetch.status
  /\ (lastFetch.kind = "threw" /\ ~IsCopilotKitError(lastFetch.error.kind)) =>
       /\ epc = "failed"
       /\ opError.kind \in TransportFailures
       /\ opError.cause = lastFetch.error.kind
       /\ opError.url = lastFetch.fetchUrl
  /\ (lastFetch.kind = "threw" /\ IsCopilotKitError(lastFetch.error.kind)) =>
       /\ epc = "failed"
       /\ opError = lastFetch.error
  /\ (lastFetch.kind = "response" /\ IsOk(lastFetch.status) /\ lastFetch.validJson) =>
       opError.url # lastFetch.fetchUrl

\* C11 witness: loadAgentState's fetch of /agents/state threw a network error and the
\* operation failed with a low-level error wrapping it, carrying the attempted URL.
C11_Witness ==
  /\ operation = "loadAgentState"
  /\ lastFetch.fetchUrl = "http://u1/agents/state"
  /\ lastFetch.kind = "threw"
  /\ lastFetch.error.kind = "TypeError"
  /\ epc = "failed"
  /\ opError = Err("CopilotKitLowLevelError", "http://u1/agents/state", 0, "TypeError")

\* The tokens of a serialized value.
TokensOf(text) == { text[i] : i \in 1..Len(text) }

\* C12: once the thread-state read of a LangGraph Platform agent has settled,
\* loadAgentState has returned, with no error; when the read threw or gave an empty
\* state the response is threadExists false, state "{}", messages "[]"; threadExists
\* is true exactly when the read returned a non-empty state, and the serialized state
\* then has no messages field.
C12_PlatformStateBestEffort ==
  getStateOutcome \in {"threw", "returned"} =>
    /\ epc = "done"
    /\ opError = NoErr
    /\ (getStateOutcome = "threw" \/ threadState = <<>>) =>
         /\ loadResult.threadExists = FALSE
         /\ loadResult.state = <<"{", "}">>
         /\ loadResult.messages = <<"[", "]">>
    /\ loadResult.threadExists <=> (getStateOutcome = "returned" /\ threadState # <<>>)
    /\ loadResult.threadExists => Quote("messages") \notin TokensOf(loadResult.state)

\* C12 witness: the thread-state read threw and loadAgentState returned the empty
\* snapshot.
C12_Witness ==
  /\ getStateOutcome = "threw"
  /\ epc = "done"
  /\ loadResult.threadExists = FALSE
  /\ loadResult.state = <<"{", "}">>
  /\ loadResult.messages = <<"[", "]">>

\* The agents of a list of answers, in the order of the answers.
RECURSIVE AgentsOfAnswers(_)
AgentsOfAnswers(list) ==
  IF list = <<>> THEN <<>>
  ELSE AgentsOfAnswers(SubSeq(list, 1, Len(list) - 1))
       \o EndpointAgents(list[Len(list)].names, list[Len(list)].endpoint)

\* The endpoints that answered with an agent of that name.
EndpointsExposing(name) ==
  { answers[a].endpoint : a \in { b \in 1..Len(answers) :
                                   \E i \in 1..Len(answers[b].names) :
                                     answers[b].names[i] = name } }

\* C20: at most one endpoint query is pending; the queries are issued in configuration
\* order, each only once every endpoint before it has answered; the accumulated agents
\* are the concatenation of the answers in configuration order, of all the endpoints
\* when the discovery returns; and the agent loadAgentState uses is the one of the
\* first configured endpoint that exposes its name.
C20_DiscoveryOrder ==
  /\ Cardinality(inFlight) <= 1
  /\ \A i \in 1..Len(queried) : queried[i] = i
  /\ \A k \in inFlight : \A j \in 1..(k - 1) :
       \E a \in 1..Len(answers) : answers[a].endpoint = j
  /\ \A a \in 1..Len(answers) : answers[a].endpoint = a
  /\ agents = AgentsOfAnswers(answers)
  /\ epc = "done" => Len(answers) = Len(remoteEndpointDefinitions)
  /\ agentWithEndpoint # NoAgent =>
       /\ agentWithEndpoint.name = loadAgentName
       /\ agentWithEndpoint.endpoint \in EndpointsExposing(loadAgentName)
       /\ \A k \in EndpointsExposing(loadAgentName) : agentWithEndpoint.endpoint <= k

\* C20 witness: two endpoints both answered with an agent named A, and loadAgentState
\* for A went on with the first endpoint's agent.
C20_Witness ==
  /\ operation = "loadAgentState"
  /\ loadAgentName = "A"
  /\ EndpointsExposing("A") = {1, 2}
  /\ agentWithEndpoint = [name |-> "A", endpoint |-> 1]
  /\ queried = <<1, 2>>

\* C15: once the remote agent's stream has ended with an error the event source
\* eventually is in its terminal error state, once it has completed the event source
\* eventually is completed, and no event is pushed into an event source that has
\* reached a terminal state, which it never leaves.
C15_ForwardingNeverHangs ==
  /\ (sourceEnd = "error") ~> (subjectState = "errored")
  /\ (sourceEnd = "complete") ~> (subjectState = "completed")
  /\ [][subjectState # "open" => (pushed' = pushed /\ subjectState' = subjectState)]_vars

\* C15 witness: the agent's stream produced events and then failed, and the event
\* source, holding them, is in its terminal error state.
C15_Witness ==
  /\ sourceEnd = "error"
  /\ sourceEvents # <<>>
  /\ pushed = sourceEvents
  /\ subjectState = "errored"

\* C16: the events pushed into the event source are always the first events of the
\* remote agent's stream, in its order and as they are, as many as the observer was
\* handed; and all of them once the event source has reached a terminal state.
C16_ForwardingVerbatim ==
  /\ Len(pushed) <= Len(sourceEvents)
  /\ pushed = SubSeq(sourceEvents, 1, Len(pushed))
  /\ Len(pushed) = delivered
  /\ subjectState # "open" => pushed = sourceEvents

\* C16 witness: two different events were produced and both are in the event source,
\* in the same order, the stream having completed.
C16_Witness ==
  /\ Len(sourceEvents) = 2
  /\ sourceEvents[1] # sourceEvents[2]
  /\ pushed = sourceEvents
  /\ subjectState = "completed"

\* The outcome of the last fetch, as the try block saw it.
LastFetchOutcome ==
  [kind |-> lastFetch.kind, status |-> lastFetch.status, error |-> lastFetch.error,
   validJson |-> lastFetch.validJson]

\* A query of the discovery failed: the endpoint queried last is no more in flight and
\* has not answered, or its fetch of /info had a failing outcome.
QueryFailed ==
  \/ (Len(queried) > Len(answers) /\ inFlight = {})
  \/ /\ queried # <<>>
     /\ inFlight = {}
     /\ agentWithEndpoint = NoAgent
     /\ lastFetch.kind # "none"
     /\ lastFetch.fetchUrl = InfoUrl(remoteEndpointDefinitions[queried[Len(queried)]])
     /\ TryError(LastFetchOutcome, lastFetch.fetchUrl) # NoErr

\* C21: no endpoint is queried twice; once the query of an endpoint has failed the
\* operation has failed with that endpoint's error (the classified error of its fetch,
\* or what the LangGraph client threw), no agent list and no state were returned, the
\* endpoints after it were not queried, and nothing more happens: no later query, no
\* retry. A discovery that returns has had an answer of every endpoint.
C21_DiscoveryAborts ==
  /\ \A i, j \in 1..Len(queried) : i # j => queried[i] # queried[j]
  /\ QueryFailed =>
       LET k == queried[Len(queried)]
       IN /\ epc = "failed"
          /\ opError # NoErr
          /\ IF remoteEndpointDefinitions[k].type = LangGraphPlatformEndpointType
             THEN opError \in SdkThrowables
             ELSE opError = DirectFetchError(LastFetchOutcome, lastFetch.fetchUrl)
          /\ Len(answers) = k - 1
          /\ \A i \in 1..Len(queried) : queried[i] <= k
          /\ agentWithEndpoint = NoAgent
          /\ loadResult = NoLoadResult
          /\ ~ENABLED NextEndpoints
  /\ epc = "done" => Len(answers) = Len(remoteEndpointDefinitions)

\* C21 witness: of two endpoints the first answered 404 on /info; the discovery failed
\* with its discovery error and the second endpoint was never queried.
C21_Witness ==
  /\ operation = "discoverAgentsFromEndpoints"
  /\ Len(remoteEndpointDefinitions) = 2
  /\ queried = <<1>>
  /\ lastFetch.status = 404
  /\ epc = "failed"
  /\ opError.kind = "CopilotKitApiDiscoveryError"

\* The request carries an agent session and the runtime does not delegate agent
\* processing to the service adapter.
AgentSelected == agentSession.present /\ ~delegateAgentProcessingToServiceAdapter

\* The turn is over: processRuntimeRequest returned its response or threw.
TurnOver == pc \in {"returned", "failed"}

\* C22 (as claimed): a turn calls at most one backend; when it is over the remote
\* agent streaming handler was called, and the service adapter never, exactly when an
\* agent session is present and not delegated; otherwise the service adapter was
\* called and no handler.
C22_ModeSelectionEveryTurn ==
  /\ adapterCalls + handlerCalls <= 1
  /\ TurnOver =>
       IF AgentSelected
       THEN handlerCalls = 1 /\ adapterCalls = 0
       ELSE adapterCalls = 1 /\ handlerCalls = 0

\* C22 (amended): a turn calls at most one backend; the remote agent streaming handler
\* is called only when an agent session is present and not delegated, and then the
\* service adapter never is; the service adapter is called only otherwise, and then no
\* handler is. A turn that goes past the before-hook has called the backend of its
\* mode once; a turn that failed without calling a backend failed in the adapter
\* check or the action resolution, found no action of its agent, or had its
\* before-hook throw.
C22_ModeSelection ==
  /\ adapterCalls + handlerCalls <= 1
  /\ handlerCalls > 0 => (AgentSelected /\ adapterCalls = 0)
  /\ adapterCalls > 0 => (~AgentSelected /\ handlerCalls = 0)
  /\ pc \in {"adapterProcess", "remoteAgentHandler", "directReturn", "agentReturn",
             "returned"} =>
       IF AgentSelected
       THEN handlerCalls = 1 /\ adapterCalls = 0
       ELSE adapterCalls = 1 /\ handlerCalls = 0
  /\ (pc = "failed" /\ adapterCalls = 0 /\ handlerCalls = 0) =>
       \/ ~actionsResolved
       \/ AgentSelected /\ ~HasCurrentAgent(serverSideActions, agentSession.agentName)
       \/ beforeHook = "threw"

\* C22 witness: a turn with an agent session whose processing is delegated to the
\* adapter returned, having called the service adapter and no handler.
C22_Witness ==
  /\ agentSession.present
  /\ delegateAgentProcessingToServiceAdapter
  /\ pc = "returned"
  /\ adapterCalls = 1
  /\ handlerCalls = 0

\* Endpoint k of the configuration was queried by the discovery as a DirectEndpoint:
\* its query is over and was a fetch of its /info.
QueriedAsDirect(k) ==
  /\ \E i \in 1..Len(queried) : queried[i] = k
  /\ k \notin inFlight
  /\ lastFetch.kind # "none"
  /\ lastFetch.fetchUrl = InfoUrl(remoteEndpointDefinitions[k])

\* The discovery queries as a PlatformEndpoint every endpoint that resolves to one.
DiscoveryInfersVariant ==
  \A k \in 1..Len(remoteEndpointDefinitions) :
    resolveEndpointType(remoteEndpointDefinitions[k]) = LangGraphPlatformEndpointType
      => ~QueriedAsDirect(k)

\* loadAgentState reads the state of an agent from the LangGraph client (getState)
\* when its endpoint resolves to a PlatformEndpoint, by the POST of /agents/state when
\* it resolves to a DirectEndpoint.
LoadStateInfersVariant ==
  LET resolved == ResolvedEndpointDefinitions(remoteEndpointDefinitions)
  IN /\ epc = "getState" =>
          resolved[agentWithEndpoint.endpoint].type = LangGraphPlatformEndpointType
     /\ epc = "stateFetch" =>
          resolved[agentWithEndpoint.endpoint].type = CopilotKitEndpointType

\* C23: discoverAgentsFromEndpoints and loadAgentState treat every endpoint as the
\* variant that the action assembly resolves it to: an untagged definition with a
\* deployment URL and an agents list as a PlatformEndpoint, any other untagged one as
\* a DirectEndpoint.
C23_InferenceConsistent ==
  /\ DiscoveryInfersVariant
  /\ LoadStateInfersVariant

====
